---- MODULE Spec2Model ----
(***************************************************************************)
(* A model of metro_map_planner.py: the SAT encoder of the metro map       *)
(* planning puzzle (variable registry, clause store, cardinality           *)
(* encoders, path / turn / popular-cell constraints), the program run      *)
(* main, and the decoder that walks the solver's assignment.               *)
(***************************************************************************)
EXTENDS Integers, Sequences, FiniteSets, TLC

VARIABLES
    scenario, N, M, K, J, starts, ends, popular,  \* parse_input's fields
    var_counter, var_map, clauses,                \* registry and clause store
    pc,                                           \* position of the run
    ln,                                           \* loop index k (turn loop, decoder loop)
    live_id,                                      \* address of the list turn_vars is bound to (0: none)
    seq_calls,                                    \* history: sequential-counter calls, their id and variables
    eo_empty,                                     \* history: encode_exactly_one calls with an empty list
    satinput,                                     \* the .satinput file: [exists, nvars, nclauses]
    satoutput,                                    \* the .satoutput file: [exists, lines]
    nextv, asg, watch,                            \* the external solver: next variable, true set so far, clause index
    assignments, x, y, path, metro_paths,         \* the decoder's locals
    di,                                           \* the decoder's pass of the loop over the directions (1..4)
    metromap,                                     \* the .metromap file: [exists, lines]
    calls,                                        \* history: get_var calls of the registry run
    amk                                           \* the at-most-k run's input: [n, k, truth]
                                                  \* (the list has n variables, those of truth are true)

inputVars == <<scenario, N, M, K, J, starts, ends, popular>>
regVars == <<var_counter, var_map, clauses>>
encVars == <<live_id, seq_calls, eo_empty, satinput>>
solverVars == <<nextv, asg, watch>>
decVars == <<assignments, x, y, path, metro_paths, di, metromap>>
vars == <<scenario, N, M, K, J, starts, ends, popular, var_counter, var_map,
          clauses, pc, ln, live_id, seq_calls, eo_empty, satinput, satoutput,
          nextv, asg, watch, assignments, x, y, path, metro_paths, di, metromap,
          calls, amk>>

(***************************************************************************)
(* Helpers: Python's str of an int, "_".join, range, nested loops.         *)
(***************************************************************************)
RECURSIVE Concat(_)
Concat(ss) == IF ss = <<>> THEN <<>> ELSE Head(ss) \o Concat(Tail(ss))

DigitChar(d) == <<"0", "1", "2", "3", "4", "5", "6", "7", "8", "9">>[d + 1]

RECURSIVE NatStr(_)
NatStr(n) == IF n < 10 THEN <<DigitChar(n)>>
             ELSE NatStr(n \div 10) \o <<DigitChar(n % 10)>>

\* str(n) of an int, as its characters
IntStr(n) == IF n < 0 THEN <<"-">> \o NatStr(-n) ELSE NatStr(n)

\* the characters of the string arguments get_var is called with
Chars(s) == IF s = "SEQ" THEN <<"S", "E", "Q">> ELSE <<s>>

\* str(args[i]): the first argument of every get_var call is the family
\* name and the fifth (edge keys) the direction letter; the others are ints
StrArg(args, i) == IF i = 1 \/ i = 5 THEN Chars(args[i]) ELSE IntStr(args[i])

RECURSIVE JoinFrom(_, _)
JoinFrom(args, i) ==
    IF i > Len(args) THEN <<>>
    ELSE IF i = Len(args) THEN StrArg(args, i)
    ELSE StrArg(args, i) \o <<"_">> \o JoinFrom(args, i + 1)

\* var_name = "_".join(map(str, args))
VarName(args) == JoinFrom(args, 1)

(***************************************************************************)
(* The registry and the clause store.  A planner state is a record         *)
(* [var_counter, var_map, clauses].                                        *)
(***************************************************************************)
\* get_var that allocates on every call (the membership test dropped)
get_var_always(st, args) ==
    LET var_name == VarName(args)
        c == st.var_counter + 1
    IN [st |-> [st EXCEPT !.var_counter = c,
                          !.var_map = [n \in DOMAIN st.var_map \cup {var_name} |->
                                         IF n = var_name THEN c ELSE st.var_map[n]]],
        ret |-> c]

\* get_var: the planner after the call and the id returned
get_var(st, args) ==
    LET var_name == VarName(args)
    IN IF var_name \notin DOMAIN st.var_map
       THEN LET c == st.var_counter + 1
            IN [st |-> [st EXCEPT !.var_counter = c,
                                  !.var_map = [n \in DOMAIN st.var_map \cup {var_name} |->
                                                 IF n = var_name THEN c ELSE st.var_map[n]]],
                ret |-> c]
       ELSE [st |-> st, ret |-> st.var_map[var_name]]

\* add_clause(literals)
add_clause(st, literals) ==
    IF literals # <<>> THEN [st |-> [st EXCEPT !.clauses = Append(@, literals)], ret |-> 0]
    ELSE [st |-> st, ret |-> 0]

(***************************************************************************)
(* An encoder is modelled by the sequence of registry / store calls it     *)
(* makes, in the order it makes them:                                      *)
(*   <<"get", key>>        a bare get_var call on key                      *)
(*   <<"add", lits>>       add_clause of the literals <<sign, key>>, each  *)
(*                         the signed id get_var returns (or returned) for *)
(*                         key, evaluated left to right                    *)
(*   <<"eo", n>>           the entry of encode_exactly_one with a list of  *)
(*                         n variables (a history mark: no call is made)   *)
(* Exec runs such a sequence on a planner state.                           *)
(***************************************************************************)
Get(key) == <<"get", key>>
Add(lits) == <<"add", lits>>
Pos(key) == <<1, key>>
Neg(key) == <<-1, key>>
EnterExactlyOne(n) == <<"eo", n>>

RECURSIVE Resolve(_, _, _, _)
\* the literals lits[i..] turned into signed ids, allocating through get_var
Resolve(st, lits, i, acc) ==
    IF i > Len(lits) THEN [st |-> st, ret |-> acc]
    ELSE LET g == get_var(st, lits[i][2])
         IN Resolve(g.st, lits, i + 1, Append(acc, lits[i][1] * g.ret))

ExecOp(st, op) ==
    IF op[1] = "get" THEN get_var(st, op[2]).st
    ELSE IF op[1] = "eo" THEN st
    ELSE LET r == Resolve(st, op[2], 1, <<>>)
         IN add_clause(r.st, r.ret).st

RECURSIVE ExecRange(_, _, _, _)
ExecRange(st, ops, lo, hi) ==
    IF lo > hi THEN st
    ELSE IF lo = hi THEN ExecOp(st, ops[lo])
    ELSE LET mid == (lo + hi) \div 2
             half == ExecRange(st, ops, lo, mid)
         IN IF half.var_counter >= 0    \* (always: the first half is run first)
            THEN ExecRange(half, ops, mid + 1, hi)
            ELSE half

Exec(st, ops) == ExecRange(st, ops, 1, Len(ops))

(***************************************************************************)
(* Cardinality encoders.  `variables` is the list of the keys whose ids    *)
(* the code passes.                                                        *)
(***************************************************************************)
\* encode_at_most_one(variables)
encode_at_most_one(variables) ==
    Concat([i \in 1..Len(variables) |->
        [d \in 1..(Len(variables) - i) |->
            Add(<<Neg(variables[i]), Neg(variables[i + d])>>)]])

\* encode_exactly_one(variables)
encode_exactly_one(variables) ==
    IF variables = <<>> THEN <<EnterExactlyOne(0)>>
    ELSE <<EnterExactlyOne(Len(variables)),
           Add([i \in 1..Len(variables) |-> Pos(variables[i])])>>
         \o encode_at_most_one(variables)

\* the number of encode_exactly_one calls in ops that got an empty list
EmptyExactlyOneCalls(ops) ==
    Cardinality({i \in 1..Len(ops) : ops[i] = EnterExactlyOne(0)})

RECURSIVE combinations(_, _)
\* itertools.combinations(s, r), in its order
combinations(s, r) ==
    IF r = 0 THEN << <<>> >>
    ELSE IF Len(s) < r THEN <<>>
    ELSE LET withHead == combinations(Tail(s), r - 1)
         IN [i \in 1..Len(withHead) |-> <<Head(s)>> \o withHead[i]]
            \o combinations(Tail(s), r)

Min(a, b) == IF a < b THEN a ELSE b

SEQ(id, i, j) == <<"SEQ", id, i, j>>

\* seq_cell without the clause [-s, -x, s_prev_j1] of the case 0 < j <= k
seq_cell_unsupported(variables, k, id, i, j) ==
    LET s == SEQ(id, i, j) IN
    <<Get(s)>> \o
    (IF i = 0 THEN (IF j = 0 THEN <<Add(<<Pos(s)>>)>> ELSE <<Add(<<Neg(s)>>)>>)
     ELSE IF j > i THEN <<Add(<<Neg(s)>>)>>
     ELSE LET xv == variables[i] IN
          IF j = 0 THEN
              LET s_prev == SEQ(id, i - 1, 0) IN
              <<Get(s_prev),
                Add(<<Neg(xv), Neg(s)>>),
                Add(<<Pos(xv), Neg(s_prev), Pos(s)>>),
                Add(<<Neg(s), Pos(s_prev)>>)>>
          ELSE IF j <= k THEN
              LET s_prev_j == SEQ(id, i - 1, j)
                  s_prev_j1 == SEQ(id, i - 1, j - 1) IN
              <<Get(s_prev_j), Get(s_prev_j1),
                Add(<<Neg(xv), Neg(s_prev_j1), Pos(s)>>),
                Add(<<Pos(xv), Neg(s_prev_j), Pos(s)>>),
                Add(<<Neg(s), Pos(xv), Pos(s_prev_j)>>)>>
          ELSE <<>>)

\* one iteration (i, j) of the sequential counter's double loop
seq_cell(variables, k, id, i, j) ==
    LET s == SEQ(id, i, j) IN
    <<Get(s)>> \o
    (IF i = 0 THEN (IF j = 0 THEN <<Add(<<Pos(s)>>)>> ELSE <<Add(<<Neg(s)>>)>>)
     ELSE IF j > i THEN <<Add(<<Neg(s)>>)>>
     ELSE LET xv == variables[i] IN     \* variables[i - 1], 0-based
          IF j = 0 THEN
              LET s_prev == SEQ(id, i - 1, 0) IN
              <<Get(s_prev),
                Add(<<Neg(xv), Neg(s)>>),
                Add(<<Pos(xv), Neg(s_prev), Pos(s)>>),
                Add(<<Neg(s), Pos(s_prev)>>)>>
          ELSE IF j <= k THEN
              LET s_prev_j == SEQ(id, i - 1, j)
                  s_prev_j1 == SEQ(id, i - 1, j - 1) IN
              <<Get(s_prev_j), Get(s_prev_j1),
                Add(<<Neg(xv), Neg(s_prev_j1), Pos(s)>>),
                Add(<<Pos(xv), Neg(s_prev_j), Pos(s)>>),
                Add(<<Neg(s), Pos(xv), Pos(s_prev_j)>>),
                Add(<<Neg(s), Neg(xv), Pos(s_prev_j1)>>)>>
          ELSE <<>>)

\* whether encode_at_most_k_simple(variables, k) takes the sequential branch
TakesSeqBranch(n, k) == ~(k >= n) /\ ~(k < 0) /\ ~(k <= 3)

\* encode_at_most_k_simple whose subset enumeration forbids the subsets of
\* size k + 2
encode_at_most_k_plus_one(variables, k, id) ==
    LET n == Len(variables) IN
    IF k >= n THEN <<>>
    ELSE IF k < 0 THEN [i \in 1..n |-> Add(<<Neg(variables[i])>>)]
    ELSE IF k <= 3 THEN
        LET subsets == combinations(variables, k + 2)
        IN [c \in 1..Len(subsets) |->
               Add([i \in 1..(k + 2) |-> Neg(subsets[c][i])])]
    ELSE Concat([i1 \in 1..(n + 1) |->
            Concat([j1 \in 1..(Min(i1 - 1, k) + 2) |->
                seq_cell(variables, k, id, i1 - 1, j1 - 1)])])
         \o <<Add([j1 \in 1..(k + 1) |-> Pos(SEQ(id, n, j1 - 1))])>>

\* encode_at_most_k_simple(variables, k); id is the value of id(variables)
encode_at_most_k_simple(variables, k, id) ==
    LET n == Len(variables) IN
    IF k >= n THEN <<>>
    ELSE IF k < 0 THEN [i \in 1..n |-> Add(<<Neg(variables[i])>>)]
    ELSE IF k <= 3 THEN
        LET subsets == combinations(variables, k + 1)
        IN [c \in 1..Len(subsets) |->
               Add([i \in 1..(k + 1) |-> Neg(subsets[c][i])])]
    ELSE Concat([i1 \in 1..(n + 1) |->
            Concat([j1 \in 1..(Min(i1 - 1, k) + 2) |->
                seq_cell(variables, k, id, i1 - 1, j1 - 1)])])
         \o <<Add([j1 \in 1..(k + 1) |-> Pos(SEQ(id, n, j1 - 1))])>>

(***************************************************************************)
(* The grid encoders.                                                      *)
(***************************************************************************)
\* directions = {'L': (-1, 0), 'R': (1, 0), 'U': (0, -1), 'D': (0, 1)}, in
\* the dict's order
directions == <<"L", "R", "U", "D">>
dx(d) == CASE d = "L" -> -1 [] d = "R" -> 1 [] OTHER -> 0
dy(d) == CASE d = "U" -> -1 [] d = "D" -> 1 [] OTHER -> 0

C(cx, cy, k) == <<"C", cx, cy, k>>
D(cx, cy, k, d) == <<"D", cx, cy, k, d>>
T(cx, cy, k) == <<"T", cx, cy, k>>

\* 0 <= cx < self.N and 0 <= cy < self.M
InGrid(g, cx, cy) == 0 <= cx /\ cx < g.N /\ 0 <= cy /\ cy < g.M

\* for x in range(N): for y in range(M): body(x, y)
ForCells(g, body(_, _)) ==
    Concat([x1 \in 1..g.N |-> Concat([y1 \in 1..g.M |-> body(x1 - 1, y1 - 1)])])

ForDirs(body(_)) == Concat([i \in 1..4 |-> body(directions[i])])

\* the edge variables leaving (cx, cy) toward an in-bound neighbour
out_dirs(g, cx, cy, k) ==
    LET ds == SelectSeq(directions, LAMBDA d : InGrid(g, cx + dx(d), cy + dy(d)))
    IN [i \in 1..Len(ds) |-> D(cx, cy, k, ds[i])]

\* the edge variables entering (cx, cy) from an in-bound neighbour
inc_dirs(g, cx, cy, k) ==
    LET ds == SelectSeq(directions, LAMBDA d : InGrid(g, cx - dx(d), cy - dy(d)))
    IN [i \in 1..Len(ds) |-> D(cx - dx(ds[i]), cy - dy(ds[i]), k, ds[i])]

GetAll(keys) == [i \in 1..Len(keys) |-> Get(keys[i])]

\* encode_cell_constraints()
encode_cell_constraints(g) ==
    ForCells(g, LAMBDA cx, cy :
        LET cell_vars == [k1 \in 1..g.K |-> C(cx, cy, k1 - 1)]
        IN GetAll(cell_vars) \o encode_at_most_one(cell_vars))

\* the body of encode_path_constraints' cell loop, for line k
path_cell(g, k, cx, cy) ==
    LET s == g.starts[k + 1]
        e == g.ends[k + 1]
        cell_var == C(cx, cy, k)
        outs == out_dirs(g, cx, cy, k)
        incs == inc_dirs(g, cx, cy, k)
    IN <<Get(cell_var)>>
       \o ForDirs(LAMBDA d : <<Add(<<Neg(D(cx, cy, k, d)), Pos(cell_var)>>)>>)
       \o (IF <<cx, cy>> = s THEN
               GetAll(outs) \o encode_exactly_one(outs)
               \o [i \in 1..Len(incs) |-> Add(<<Neg(incs[i])>>)]
           ELSE IF <<cx, cy>> = e THEN
               ForDirs(LAMBDA d : <<Add(<<Neg(D(cx, cy, k, d))>>)>>)
               \o GetAll(incs) \o encode_exactly_one(incs)
           ELSE
               GetAll(outs) \o GetAll(incs)
               \o (IF outs # <<>>
                   THEN <<Add(<<Neg(cell_var)>> \o [i \in 1..Len(outs) |-> Pos(outs[i])])>>
                        \o encode_at_most_one(outs)
                   ELSE <<>>)
               \o (IF incs # <<>>
                   THEN <<Add(<<Neg(cell_var)>> \o [i \in 1..Len(incs) |-> Pos(incs[i])])>>
                        \o encode_at_most_one(incs)
                   ELSE <<>>)
               \o [i \in 1..Len(outs \o incs) |->
                      Add(<<Pos(cell_var), Neg((outs \o incs)[i])>>)])
       \o ForDirs(LAMBDA d :
              IF InGrid(g, cx + dx(d), cy + dy(d))
              THEN <<Get(D(cx, cy, k, d)), Get(C(cx + dx(d), cy + dy(d), k)),
                     Add(<<Neg(D(cx, cy, k, d)), Pos(C(cx + dx(d), cy + dy(d), k))>>)>>
              ELSE <<>>)

\* encode_path_constraints()
encode_path_constraints(g) ==
    Concat([k1 \in 1..g.K |->
        LET k == k1 - 1
            s == g.starts[k1]
            e == g.ends[k1]
        IN <<Add(<<Pos(C(s[1], s[2], k))>>), Add(<<Pos(C(e[1], e[2], k))>>)>>
           \o ForCells(g, LAMBDA cx, cy : path_cell(g, k, cx, cy))])

\* the interior cells of line k in loop order: the cells encode_turn_constraints
\* does not skip
interior_cells(g, k) ==
    ForCells(g, LAMBDA cx, cy :
        IF <<cx, cy>> = g.starts[k + 1] \/ <<cx, cy>> = g.ends[k + 1]
        THEN <<>> ELSE << <<cx, cy>> >>)

\* turn_vars of line k, when its loop is over
turn_vars(g, k) ==
    LET cs == interior_cells(g, k)
    IN [i \in 1..Len(cs) |-> T(cs[i][1], cs[i][2], k)]

\* the body of encode_turn_constraints' cell loop, for line k
turn_cell(g, k, cx, cy) ==
    LET turn_var == T(cx, cy, k) IN
    <<Get(turn_var)>>
    \o ForDirs(LAMBDA d_in :
         IF ~InGrid(g, cx - dx(d_in), cy - dy(d_in)) THEN <<>>
         ELSE LET in_var == D(cx - dx(d_in), cy - dy(d_in), k, d_in) IN
              <<Get(in_var)>>
              \o ForDirs(LAMBDA d_out :
                   IF ~InGrid(g, cx + dx(d_out), cy + dy(d_out)) THEN <<>>
                   ELSE LET out_var == D(cx, cy, k, d_out) IN
                        <<Get(out_var),
                          IF d_in # d_out
                          THEN Add(<<Neg(in_var), Neg(out_var), Pos(turn_var)>>)
                          ELSE Add(<<Neg(in_var), Neg(out_var), Neg(turn_var)>>)>>))

\* one iteration of encode_turn_constraints' line loop; id is id(turn_vars)
encode_turn_line(g, k, id) ==
    LET cs == interior_cells(g, k)
    IN Concat([i \in 1..Len(cs) |-> turn_cell(g, k, cs[i][1], cs[i][2])])
       \o (IF g.J >= 0 /\ turn_vars(g, k) # <<>>
           THEN encode_at_most_k_simple(turn_vars(g, k), g.J, id)
           ELSE <<>>)

\* encode_popular_constraints()
encode_popular_constraints(g) ==
    IF g.scenario # 2 THEN <<>>
    ELSE [p \in 1..Len(g.popular) |->
             Add([k1 \in 1..g.K |-> Pos(C(g.popular[p][1], g.popular[p][2], k1 - 1))])]

(***************************************************************************)
(* The state machine.  Init is the planner after __init__.                 *)
(***************************************************************************)
Planner == [var_counter |-> var_counter, var_map |-> var_map, clauses |-> clauses]
Fresh == [var_counter |-> 0, var_map |-> <<>>, clauses |-> <<>>]
SetPlanner(st) ==
    /\ var_counter' = st.var_counter
    /\ var_map' = st.var_map
    /\ clauses' = st.clauses

\* the planner's input fields, as the encoders read them
Grid == [scenario |-> scenario, N |-> N, M |-> M, K |-> K, J |-> J,
         starts |-> starts, ends |-> ends, popular |-> popular]

Init ==
    /\ scenario = 0 /\ N = 0 /\ M = 0 /\ K = 0 /\ J = 0
    /\ starts = <<>> /\ ends = <<>> /\ popular = <<>>
    /\ var_counter = 0 /\ var_map = <<>> /\ clauses = <<>>
    /\ pc = "new"
    /\ ln = 0
    /\ live_id = 0
    /\ seq_calls = <<>>
    /\ eo_empty = 0
    /\ satinput = [exists |-> FALSE, nvars |-> 0, nclauses |-> 0]
    /\ satoutput = [exists |-> FALSE, lines |-> <<>>]
    /\ nextv = 0 /\ asg = {} /\ watch = <<>>
    /\ assignments = {} /\ x = 0 /\ y = 0 /\ path = <<>> /\ metro_paths = <<>>
    /\ di = 1
    /\ metromap = [exists |-> FALSE, lines |-> <<>>]
    /\ calls = <<>>
    /\ amk = [n |-> 0, k |-> 0, truth |-> {}]

(***************************************************************************)
(* Bounds of the inputs.                                                   *)
(***************************************************************************)
MaxJ == 4          \* turn budgets 0..MaxJ
MaxLines == 3      \* encoding runs: 0..MaxLines lines
MaxWidth == 4      \* encoding runs: grids up to MaxWidth x 2
NumAddrs == 3      \* the addresses a list may get
MaxTrue == 2       \* a stale solver report asserts at most MaxTrue variables
MaxPath == 6       \* the directions of a decoded path the model keeps
MaxCalls == 4      \* registry runs: the get_var calls
MaxVars == 6       \* at-most-k runs: the length of the variable list
MaxBudget == 5     \* at-most-k runs: k in -1..MaxBudget

Addrs == 1..NumAddrs

Cells(n, m) == {<<cx, cy>> : cx \in 0..(n - 1), cy \in 0..(m - 1)}

\* parse_input: the fields after reading an instance
parse_input(inst) ==
    /\ scenario' = inst.scenario
    /\ N' = inst.N /\ M' = inst.M /\ K' = inst.K /\ J' = inst.J
    /\ starts' = inst.starts /\ ends' = inst.ends
    /\ popular' = inst.popular

\* the instances of the encoding runs: every line from the corner (0, 0) to
\* the same end cell e, which may be the start itself
EncInstances ==
    {[scenario |-> 1, N |-> n, M |-> m, K |-> k, J |-> j,
      starts |-> [i \in 1..k |-> <<0, 0>>], ends |-> [i \in 1..k |-> e],
      popular |-> <<>>] :
        n \in 1..MaxWidth, m \in 1..2, k \in 0..MaxLines, j \in {0, MaxJ},
        e \in {<<0, 0>>, <<0, 1>>, <<1, 0>>}}

ParseInputEnc ==
    /\ pc = "new"
    /\ \E inst \in EncInstances :
          /\ \A i \in 1..inst.K : inst.ends[i] \in Cells(inst.N, inst.M)
          /\ parse_input(inst)
    /\ pc' = "cell"
    /\ UNCHANGED <<regVars, ln, encVars, satoutput, solverVars, decVars, calls, amk>>

\* encode_to_sat, to the end of encode_cell_constraints
EncodeCellConstraints ==
    /\ pc = "cell"
    /\ SetPlanner(Exec(Fresh, encode_cell_constraints(Grid)))
    /\ pc' = "path"
    /\ UNCHANGED <<inputVars, ln, encVars, satoutput, solverVars, decVars, calls, amk>>

EncodePathConstraints ==
    /\ pc = "path"
    /\ LET ops == encode_path_constraints(Grid)
       IN /\ SetPlanner(Exec(Planner, ops))
          /\ eo_empty' = eo_empty + EmptyExactlyOneCalls(ops)
    /\ pc' = IF K > 0 THEN "turn" ELSE "popular"
    /\ ln' = 0
    /\ UNCHANGED <<inputVars, live_id, seq_calls, satinput, satoutput, solverVars,
                   decVars, calls, amk>>

\* the ids get_var returned for the SEQ keys of ops, in planner st
SeqVars(st, ops) ==
    {st.var_map[VarName(ops[i][2])] :
        i \in {i \in 1..Len(ops) : ops[i][1] = "get" /\ ops[i][2][1] = "SEQ"}}

\* One iteration of encode_turn_constraints' loop over the lines.  The new
\* list turn_vars is built while the name is still bound to the previous
\* line's list, so its address differs from that one's, and from no other's.
EncodeTurnLine ==
    /\ pc = "turn"
    /\ \E id \in Addrs \ {live_id} :
          LET ops == encode_turn_line(Grid, ln, id)
              st == Exec(Planner, ops)
          IN /\ SetPlanner(st)
             /\ live_id' = id
             /\ seq_calls' =
                   IF J >= 0 /\ turn_vars(Grid, ln) # <<>>
                      /\ TakesSeqBranch(Len(turn_vars(Grid, ln)), J)
                   THEN Append(seq_calls, [line |-> ln, id |-> id, aux |-> SeqVars(st, ops)])
                   ELSE seq_calls
    /\ ln' = ln + 1
    /\ pc' = IF ln + 1 < K THEN "turn" ELSE "popular"
    /\ UNCHANGED <<inputVars, eo_empty, satinput, satoutput, solverVars, decVars,
                   calls, amk>>

\* encode_to_sat, from encode_popular_constraints to the written file
EncodePopularAndWrite ==
    /\ pc = "popular"
    /\ LET st == Exec(Planner, encode_popular_constraints(Grid))
       IN /\ SetPlanner(st)
          /\ satinput' = [exists |-> TRUE, nvars |-> st.var_counter,
                           nclauses |-> Len(st.clauses)]
    /\ live_id' = 0      \* encode_turn_constraints returned: its list is released
    /\ pc' = "encoded"
    /\ UNCHANGED <<inputVars, ln, seq_calls, eo_empty, satoutput,
                   solverVars, decVars, calls, amk>>

EncNext ==
    \/ ParseInputEnc
    \/ EncodeCellConstraints
    \/ EncodePathConstraints
    \/ EncodeTurnLine
    \/ EncodePopularAndWrite

\* the encoding runs: parse_input, then encode_to_sat
SpecEnc == Init /\ [][EncNext]_vars

(***************************************************************************)
(* The program run: main, with the external solver between encode_to_sat   *)
(* and the decoder.  The solver reads the clauses and the variable count   *)
(* encode_to_sat wrote (the numbering does not depend on the run) and may  *)
(* report any satisfying assignment: it decides the variables in order and *)
(* gives up a branch as soon as a clause is false.  The .satoutput file    *)
(* main finds may also be absent, empty, an UNSAT report, or a report left *)
(* by another run (any small set of variables).                            *)
(***************************************************************************)
Abs(i) == IF i < 0 THEN -i ELSE i

RECURSIVE MaxVar(_)
MaxVar(c) == IF c = <<>> THEN 0
             ELSE LET r == MaxVar(Tail(c))
                  IN IF Abs(Head(c)) > r THEN Abs(Head(c)) ELSE r

\* literal l is true when exactly the variables of `true` are
LitTrue(l, true) == IF l > 0 THEN l \in true ELSE (-l) \notin true
ClauseTrue(c, true) == {i \in 1..Len(c) : LitTrue(c[i], true)} # {}
Satisfies(true, cls) == \A i \in 1..Len(cls) : ClauseTrue(cls[i], true)

\* the instances of the program runs: the lines' endpoints (start x, y,
\* end x, y)
RunLines ==
    { <<>>,
      << <<0, 0, 1, 0>> >>,
      << <<0, 0, 1, 1>> >>,
      << <<0, 0, 0, 1>> >>,
      << <<0, 0, 1, 0>>, <<0, 1, 1, 1>> >> }

Instance(n, ls, j, pop) ==
    [scenario |-> IF pop = <<>> THEN 1 ELSE 2, N |-> n, M |-> 2, K |-> Len(ls), J |-> j,
     starts |-> [i \in 1..Len(ls) |-> <<ls[i][1], ls[i][2]>>],
     ends |-> [i \in 1..Len(ls) |-> <<ls[i][3], ls[i][4]>>],
     popular |-> pop]

\* 2 x 2 grids with every set of lines and every turn budget, the 3 x 2 grid
\* with the line (0, 0) to (0, 1), and a 2 x 2 grid with a popular cell
RunInstances ==
    {Instance(2, ls, j, <<>>) : ls \in RunLines, j \in 0..MaxJ}
    \cup {Instance(3, << <<0, 0, 0, 1>> >>, j, <<>>) : j \in 0..MaxJ}
    \cup {Instance(2, << <<0, 0, 1, 0>> >>, j, << <<1, 1>> >>) : j \in 0..MaxJ}

ParseInput ==
    /\ pc = "new"
    /\ \E inst \in RunInstances : parse_input(inst)
    /\ pc' = "cell"
    /\ UNCHANGED <<regVars, ln, encVars, satoutput, solverVars, decVars, calls, amk>>

\* the solver reads the instance
SolverStart ==
    /\ pc = "encoded"
    /\ pc' = "solving"
    /\ nextv' = 1
    /\ asg' = {}
    /\ watch' = [v \in 1..var_counter |->
                   {clauses[i] : i \in {i \in 1..Len(clauses) : MaxVar(clauses[i]) = v}}]
    /\ UNCHANGED <<inputVars, regVars, ln, encVars, satoutput, decVars, calls, amk>>

\* the solver decides variable nextv
SolverDecide ==
    /\ pc = "solving"
    /\ nextv <= var_counter
    /\ \E b \in BOOLEAN :
          LET true == IF b THEN asg \cup {nextv} ELSE asg
          IN /\ \A c \in watch[nextv] : ClauseTrue(c, true)
             /\ asg' = true
    /\ nextv' = nextv + 1
    /\ UNCHANGED <<inputVars, regVars, pc, ln, encVars, satoutput, watch, decVars,
                   calls, amk>>

\* a report: the line "SAT", then the literals of a line, ended by 0
Report(nv, true) ==
    <<"SAT", [v \in 1..nv |-> IF v \in true THEN v ELSE -v] \o <<0>> >>

\* the solver reports the satisfying assignment it found
SolverReport ==
    /\ pc = "solving"
    /\ nextv = var_counter + 1
    /\ satoutput' = [exists |-> TRUE, lines |-> Report(var_counter, asg)]
    /\ pc' = "main"
    /\ UNCHANGED <<inputVars, regVars, ln, encVars, solverVars, decVars, calls, amk>>

\* no .satoutput file, an empty one, or an UNSAT report
OutputNoSolution ==
    /\ pc = "encoded"
    /\ \E f \in {[exists |-> FALSE, lines |-> <<>>],
                 [exists |-> TRUE, lines |-> <<>>],
                 [exists |-> TRUE, lines |-> <<"UNSAT">>]} : satoutput' = f
    /\ pc' = "main"
    /\ UNCHANGED <<inputVars, regVars, ln, encVars, solverVars, decVars, calls, amk>>

\* a report that asserts any set of at most MaxTrue variables
OutputStale ==
    /\ pc = "encoded"
    /\ \E f \in [1..MaxTrue -> 0..var_counter] :
          satoutput' = [exists |-> TRUE,
                        lines |-> Report(var_counter, {f[i] : i \in 1..MaxTrue} \ {0})]
    /\ pc' = "main"
    /\ UNCHANGED <<inputVars, regVars, ln, encVars, solverVars, decVars, calls, amk>>

\* main, after encode_to_sat: if os.path.exists(satoutput)
MainCheckOutput ==
    /\ pc = "main"
    /\ pc' = IF satoutput.exists THEN "decode" ELSE "exit"
    /\ UNCHANGED <<inputVars, regVars, ln, encVars, satoutput, solverVars, decVars,
                   calls, amk>>

RECURSIVE ParseTokens(_)
\* the positive tokens of a line before its first 0
ParseTokens(tokens) ==
    IF tokens = <<>> \/ Head(tokens) = 0 THEN {}
    ELSE (IF Head(tokens) > 0 THEN {Head(tokens)} ELSE {}) \cup ParseTokens(Tail(tokens))

\* the file decode_sat_output writes when there is no solution: "0\n"
NoSolution == [exists |-> TRUE, lines |-> << <<"0">> >>]

\* decode_sat_output, to the start of the lines' loop
DecodeBegin ==
    /\ pc = "decode"
    /\ IF ~satoutput.exists
       THEN /\ metromap' = NoSolution
            /\ pc' = "exit"
            /\ UNCHANGED <<assignments, ln, metro_paths>>
       ELSE IF satoutput.lines = <<>> \/ satoutput.lines[1] = "UNSAT"
       THEN /\ metromap' = NoSolution
            /\ pc' = "exit"
            /\ UNCHANGED <<assignments, ln, metro_paths>>
       ELSE /\ assignments' = UNION {ParseTokens(satoutput.lines[i]) :
                                        i \in 2..Len(satoutput.lines)}
            /\ metro_paths' = <<>>
            /\ ln' = 0
            /\ pc' = "line"
            /\ UNCHANGED metromap
    /\ UNCHANGED <<inputVars, regVars, encVars, satoutput, solverVars, x, y, path,
                   di, calls, amk>>

\* the head of the loop over the lines, and the file written after it
DecodeLine ==
    /\ pc = "line"
    /\ IF ln < K
       THEN /\ path' = <<>>
            /\ x' = starts[ln + 1][1]
            /\ y' = starts[ln + 1][2]
            /\ pc' = "walk"
            /\ UNCHANGED metromap
       ELSE /\ metromap' = [exists |-> TRUE,
                             lines |-> [i \in 1..Len(metro_paths) |->
                                          metro_paths[i] \o <<"0">>]]
            /\ pc' = "exit"
            /\ UNCHANGED <<path, x, y>>
    /\ UNCHANGED <<inputVars, regVars, ln, encVars, satoutput, solverVars, assignments,
                   metro_paths, di, calls, amk>>

\* leaving the while loop: metro_paths.append(path), and the next line
WalkEnd ==
    /\ metro_paths' = Append(metro_paths, path)
    /\ ln' = ln + 1
    /\ pc' = "line"
    /\ UNCHANGED <<x, y, path>>

\* the test of the while condition (x, y) != (ex, ey); when it holds the
\* for loop over ['L', 'R', 'U', 'D'] starts
DecodeWalk ==
    /\ pc = "walk"
    /\ IF <<x, y>> = ends[ln + 1]
       THEN WalkEnd /\ UNCHANGED di
       ELSE /\ di' = 1
            /\ pc' = "probe"
            /\ UNCHANGED <<x, y, path, metro_paths, ln>>
    /\ UNCHANGED <<inputVars, regVars, encVars, satoutput, solverVars, assignments,
                   metromap, calls, amk>>

\* one pass of the for loop over the directions: dir_var = get_var(...) and,
\* when it is in assignments, the move and the break; after the fourth
\* pass without a move, found is False and the while loop is left.  The
\* model keeps the first MaxPath directions of path.
DecodeProbe ==
    /\ pc = "probe"
    /\ LET d == directions[di]
           r == get_var(Planner, D(x, y, ln, d))
       IN /\ SetPlanner(r.st)
          /\ IF r.ret \in assignments
             THEN /\ path' = IF Len(path) < MaxPath THEN Append(path, d) ELSE path
                  /\ x' = x + dx(d)
                  /\ y' = y + dy(d)
                  /\ di' = 1
                  /\ pc' = "walk"
                  /\ UNCHANGED <<metro_paths, ln>>
             ELSE IF di < 4
             THEN /\ di' = di + 1
                  /\ UNCHANGED <<x, y, path, metro_paths, ln, pc>>
             ELSE WalkEnd /\ di' = 1
    /\ UNCHANGED <<inputVars, encVars, satoutput, solverVars, assignments, metromap,
                   calls, amk>>

Next ==
    \/ ParseInput
    \/ EncodeCellConstraints
    \/ EncodePathConstraints
    \/ EncodeTurnLine
    \/ EncodePopularAndWrite
    \/ SolverStart
    \/ SolverDecide
    \/ SolverReport
    \/ OutputNoSolution
    \/ MainCheckOutput
    \/ DecodeBegin
    \/ DecodeLine
    \/ DecodeWalk
    \/ DecodeProbe

\* the program runs with the solver's report
Spec == Init /\ [][Next]_vars

\* the instances of the runs on a stale report: the 2 x 2 grids
StaleInstances == {Instance(2, ls, j, <<>>) : ls \in RunLines, j \in {0, MaxJ}}

ParseInputStale ==
    /\ pc = "new"
    /\ \E inst \in StaleInstances : parse_input(inst)
    /\ pc' = "cell"
    /\ UNCHANGED <<regVars, ln, encVars, satoutput, solverVars, decVars, calls, amk>>

StaleNext ==
    \/ ParseInputStale
    \/ EncodeCellConstraints
    \/ EncodePathConstraints
    \/ EncodeTurnLine
    \/ EncodePopularAndWrite
    \/ OutputStale
    \/ MainCheckOutput
    \/ DecodeBegin
    \/ DecodeLine
    \/ DecodeWalk
    \/ DecodeProbe

\* The program runs on a report left by another run.  The decoder is a loop
\* of one thread that nothing suspends: while it can step, it steps.
FairSpec == Init /\ [][StaleNext]_vars /\ WF_vars(DecodeWalk) /\ WF_vars(DecodeProbe)

(***************************************************************************)
(* The registry alone: any sequence of get_var calls on keys of the shapes *)
(* the program uses, each call logged with what it returned.               *)
(***************************************************************************)
\* keys of every family, some with arguments of several digits or negative
RegKeys ==
    {C(1, 10, 0), C(11, 0, 0), D(1, 0, 0, "L"), D(-1, 0, 0, "L"),
     T(1, 10, 0), SEQ(1, 10, 0)}

\* one get_var call
RegGetVar ==
    /\ pc \in {"new", "reg"}
    /\ Len(calls) < MaxCalls
    /\ \E key \in RegKeys :
          LET r == get_var(Planner, key)
          IN /\ SetPlanner(r.st)
             /\ calls' = Append(calls, [key |-> key, ret |-> r.ret,
                                        before |-> var_counter,
                                        after |-> r.st.var_counter])
    /\ pc' = "reg"
    /\ UNCHANGED <<inputVars, ln, encVars, satoutput, solverVars, decVars, amk>>

RegNext == RegGetVar

SpecReg == Init /\ [][RegNext]_vars

(***************************************************************************)
(* encode_at_most_k_simple alone: a list of n variables, an integer k, and *)
(* one call on a registry that holds the n variables and nothing else.     *)
(***************************************************************************)
\* the list: n distinct variables, registered in order (ids 1..n)
AmkList(n) == [i \in 1..n |-> T(i - 1, 0, 0)]

\* the caller builds its list and picks k; truth is the set of the list's
\* variables that an assignment makes true
AmkSetup ==
    /\ pc = "new"
    /\ \E n \in 0..MaxVars, k \in -1..MaxBudget :
          /\ \E truth \in SUBSET (1..n) : amk' = [n |-> n, k |-> k, truth |-> truth]
          /\ SetPlanner(Exec(Fresh, [i \in 1..n |-> Get(AmkList(n)[i])]))
    /\ pc' = "amk"
    /\ UNCHANGED <<inputVars, ln, encVars, satoutput, solverVars, decVars, calls>>

\* the call encode_at_most_k_simple(variables, k), the list at any address
AmkEncode ==
    /\ pc = "amk"
    /\ \E id \in Addrs :
          /\ SetPlanner(Exec(Planner, encode_at_most_k_simple(AmkList(amk.n), amk.k, id)))
          /\ live_id' = id
    /\ pc' = "amk_encoded"
    /\ UNCHANGED <<inputVars, ln, seq_calls, eo_empty, satinput, satoutput, solverVars,
                   decVars, calls, amk>>

AmkNext ==
    \/ AmkSetup
    \/ AmkEncode

SpecAMK == Init /\ [][AmkNext]_vars

(***************************************************************************)
(* Readings of an assignment (the set of the variables that are true).     *)
(***************************************************************************)
\* the id the registry holds for key
IdOf(key) == var_map[VarName(key)]
Holds(key, true) == VarName(key) \in DOMAIN var_map /\ IdOf(key) \in true

Lines == 0..(K - 1)
GridCells == Cells(N, M)
InBounds(cx, cy) == <<cx, cy>> \in GridCells
DirSet == {"L", "R", "U", "D"}

\* the cells line k occupies
Occupied(k, true) == {c \in GridCells : Holds(C(c[1], c[2], k), true)}

\* the directions of the true edges of line k that leave c for a cell of the grid
TrueOut(k, c, true) ==
    {d \in DirSet : InBounds(c[1] + dx(d), c[2] + dy(d)) /\ Holds(D(c[1], c[2], k, d), true)}

\* the directions of the true edges of line k that enter c from a cell of the grid
TrueIn(k, c, true) ==
    {d \in DirSet : InBounds(c[1] - dx(d), c[2] - dy(d))
                    /\ Holds(D(c[1] - dx(d), c[2] - dy(d), k, d), true)}

RECURSIVE Trace(_, _, _, _)
\* the cells on the path of true in-bound edges of line k from c to the
\* line's end, seen the cells of `seen` already; {} when there is no such
\* simple path
Trace(k, c, seen, true) ==
    IF c = ends[k + 1] THEN seen \cup {c}
    ELSE LET out == TrueOut(k, c, true)
         IN IF Cardinality(out) # 1 THEN {}
            ELSE LET d == CHOOSE d \in out : TRUE
                     nxt == <<c[1] + dx(d), c[2] + dy(d)>>
                 IN IF nxt \in seen \cup {c} THEN {}
                    ELSE Trace(k, nxt, seen \cup {c}, true)

\* the interior cells of line k where the line turns
TurnCells(k, true) ==
    {c \in GridCells \ {starts[k + 1], ends[k + 1]} :
        \E din \in TrueIn(k, c, true), dout \in TrueOut(k, c, true) : din # dout}

\* the solver has reported a satisfying assignment (asg) and main has not
\* looked at the file yet
Solved == pc = "main" /\ nextv = var_counter + 1 /\ satoutput.lines # <<>>
          /\ satoutput.lines[1] = "SAT"

(***************************************************************************)
(* C2.  Registry bijection: after any sequence of get_var calls, two calls *)
(* returned the same id iff they had the same key; a repeated key returns  *)
(* its earlier id and leaves var_counter alone; ids are handed out in      *)
(* first-seen order 1, 2, 3, ... so var_counter is the number of distinct  *)
(* keys seen and the ids allocated are exactly 1..var_counter.             *)
(***************************************************************************)
\* the keys of the first i calls
KeysSeen(i) == {calls[j].key : j \in 1..i}

C2_RegistryBijection ==
    /\ \A i, j \in DOMAIN calls :
           (calls[i].ret = calls[j].ret) <=> (calls[i].key = calls[j].key)
    /\ \A i \in DOMAIN calls :
           /\ calls[i].key \in KeysSeen(i - 1) => calls[i].after = calls[i].before
           /\ calls[i].key \notin KeysSeen(i - 1) =>
                  /\ calls[i].ret = Cardinality(KeysSeen(i))
                  /\ calls[i].after = calls[i].before + 1
    /\ var_counter = Cardinality(KeysSeen(Len(calls)))
    /\ {calls[i].ret : i \in DOMAIN calls} = 1..var_counter
    /\ {var_map[n] : n \in DOMAIN var_map} = 1..var_counter

\* a key asked for again after another key was registered
C2_Witness ==
    /\ Len(calls) = MaxCalls
    /\ calls[1].key = calls[MaxCalls].key
    /\ calls[2].key # calls[1].key
    /\ calls[MaxCalls].ret = 1
    /\ var_counter >= 2

(***************************************************************************)
(* C3.  At-most-k correctness: an assignment to the list S extends over    *)
(* the auxiliary variables to one that satisfies every clause              *)
(* encode_at_most_k_simple(S, k) emitted iff at most k variables of S are  *)
(* true.                                                                   *)
(***************************************************************************)
\* the clauses, by their largest variable
ClausesByMaxVar ==
    [v \in 1..var_counter |->
        {clauses[i] : i \in {i \in 1..Len(clauses) : MaxVar(clauses[i]) = v}}]

RECURSIVE Extends(_, _, _)
\* `true` decides the variables below v: it extends over v..var_counter
Extends(w, true, v) ==
    \/ v > var_counter
    \/ \E b \in BOOLEAN :
          LET t == IF b THEN true \cup {v} ELSE true
          IN (\A c \in w[v] : ClauseTrue(c, t)) /\ Extends(w, t, v + 1)

\* the assignment amk.truth to the list extends over the auxiliary variables
Extendable ==
    LET w == ClausesByMaxVar
    IN /\ \A v \in 1..amk.n : \A c \in w[v] : ClauseTrue(c, amk.truth)
       /\ Extends(w, amk.truth, amk.n + 1)

\* the statement as the claim has it, for every integer k
C3_AtMostK ==
    pc = "amk_encoded" => (Extendable <=> Cardinality(amk.truth) <= amk.k)

(***************************************************************************)
(* C3, amended.  For k >= 0 an assignment to S extends iff at most k       *)
(* variables of S are true; for k < 0 it extends iff no variable of S is   *)
(* true (every variable is forced false, and the assignment with none true *)
(* is accepted).  k >= n emits no clause, in the other branches every      *)
(* clause of the subset enumeration is over S alone.                       *)
(***************************************************************************)
C3_AtMostKNonNegative ==
    pc = "amk_encoded" =>
        /\ amk.k >= 0 => (Extendable <=> Cardinality(amk.truth) <= amk.k)
        /\ amk.k < 0 => (Extendable <=> amk.truth = {})
        /\ amk.k >= amk.n => clauses = <<>>
        /\ ~TakesSeqBranch(amk.n, amk.k) => var_counter = amk.n

\* the sequential counter rejects an assignment with k + 1 variables true
C3_Witness ==
    /\ pc = "amk_encoded"
    /\ TakesSeqBranch(amk.n, amk.k)
    /\ Cardinality(amk.truth) = amk.k + 1
    /\ ~Extendable

(***************************************************************************)
(* C1.  Namespace isolation of the sequential counter's variables: any two *)
(* calls of encode_at_most_k_simple that take the sequential-counter       *)
(* branch in one encoding run get disjoint sets of SEQ variables from      *)
(* get_var, whatever id(variables) returns.                                *)
(***************************************************************************)
C1_SeqNamespacesDisjoint ==
    \A i, j \in DOMAIN seq_calls :
        i # j => seq_calls[i].aux \cap seq_calls[j].aux = {}

(***************************************************************************)
(* C4.  After encode_to_sat the registry holds no edge key (D, x, y, k, d) *)
(* whose destination cell is outside the grid (so that no clause mentions  *)
(* such a variable).                                                       *)
(***************************************************************************)
C4_NoOutOfGridEdge ==
    pc = "encoded" =>
        \A c \in GridCells, k \in Lines, d \in DirSet :
            ~InBounds(c[1] + dx(d), c[2] + dy(d))
                => VarName(D(c[1], c[2], k, d)) \notin DOMAIN var_map

(***************************************************************************)
(* C7.  A run in which encode_exactly_one was called with an empty list    *)
(* fails: it does not go on to write a CNF.                                *)
(***************************************************************************)
C7_EmptyExactlyOneFails == eo_empty > 0 => ~satinput.exists

(***************************************************************************)
(* C5.  For every line with start # end and every satisfying assignment,   *)
(* the occupied cells of the line are exactly the cells of one simple      *)
(* path of true in-bound edges from its start to its end.                  *)
(***************************************************************************)
C5_OccupiedIsOnePath ==
    (Solved /\ Satisfies(asg, clauses)) =>
        \A k \in Lines :
            starts[k + 1] # ends[k + 1] =>
                /\ Trace(k, starts[k + 1], {}, asg) # {}
                /\ Occupied(k, asg) = Trace(k, starts[k + 1], {}, asg)

(***************************************************************************)
(* C6.  Turn budget: in every satisfying assignment every line turns at    *)
(* at most J interior cells; and on the 2 x 2 grid with the line (0, 0) to *)
(* (1, 0) and J = 0 the direct move R satisfies every clause while the     *)
(* detour D, R, U violates a clause of the turn budget.                    *)
(***************************************************************************)
\* the ids of the keys that are true
Ids(keys) == {IdOf(key) : key \in keys}

DirectMove == Ids({C(0, 0, 0), C(1, 0, 0), D(0, 0, 0, "R")})
Detour == Ids({C(0, 0, 0), C(0, 1, 0), C(1, 1, 0), C(1, 0, 0),
               D(0, 0, 0, "D"), D(0, 1, 0, "R"), D(1, 1, 0, "U"),
               T(0, 1, 0), T(1, 1, 0)})

\* the clauses encode_at_most_k_simple adds for line k's turn_vars, when it
\* takes no sequential branch (the keys are all in the registry)
TurnBudgetClauses(k) ==
    LET ops == encode_at_most_k_simple(turn_vars(Grid, k), J, 0)
    IN {[i \in 1..Len(ops[o][2]) |-> ops[o][2][i][1] * IdOf(ops[o][2][i][2])] :
           o \in {o \in 1..Len(ops) : ops[o][1] = "add"}}

TrivialGrid == N = 2 /\ M = 2 /\ K = 1 /\ J = 0 /\ scenario = 1
               /\ starts = << <<0, 0>> >> /\ ends = << <<1, 0>> >>

C6_TurnBudget ==
    /\ (Solved /\ Satisfies(asg, clauses)) =>
           \A k \in Lines : Cardinality(TurnCells(k, asg)) <= J
    /\ (pc = "encoded" /\ TrivialGrid) =>
           /\ Satisfies(DirectMove, clauses)
           /\ \E c \in TurnBudgetClauses(0) : ~ClauseTrue(c, Detour)

\* a satisfying assignment in which a line uses its whole budget of turns
C6_Witness ==
    /\ Solved /\ Satisfies(asg, clauses)
    /\ J >= 1
    /\ \E k \in Lines : Cardinality(TurnCells(k, asg)) = J

(***************************************************************************)
(* C8.  When the solver's output is an UNSAT report, is empty or is        *)
(* absent, the run leaves a .metromap file that is the one line 0, for any *)
(* number of lines K.                                                      *)
(***************************************************************************)
C8_NoSolutionSentinel ==
    (/\ pc = "exit"
     /\ \/ ~satoutput.exists
        \/ satoutput.lines = <<>>
        \/ satoutput.lines[1] = "UNSAT")
        => metromap = NoSolution

(***************************************************************************)
(* C9.  The decoder's walk of a line always stops, whatever set of true    *)
(* variables it is given.                                                  *)
(***************************************************************************)
C9_WalkStops == [](pc \in {"walk", "probe"} => <>(pc = "line"))

(***************************************************************************)
(* C10.  Round trip: decoding a satisfying assignment of an instance with  *)
(* start # end for every line gives, for each line, directions that lead   *)
(* from the start to the end inside the grid over occupied cells, and      *)
(* allocates no variable.                                                  *)
(***************************************************************************)
RECURSIVE Follows(_, _, _, _, _)
\* the directions p[i..] lead from c to the end of line k over occupied
\* cells of the grid
Follows(k, p, i, c, true) ==
    /\ c \in GridCells
    /\ c \in Occupied(k, true)
    /\ IF i > Len(p) THEN c = ends[k + 1]
       ELSE Follows(k, p, i + 1, <<c[1] + dx(p[i]), c[2] + dy(p[i])>>, true)

C10_RoundTrip ==
    (/\ pc = "exit"
     /\ satoutput.exists /\ satoutput.lines # <<>> /\ satoutput.lines[1] = "SAT"
     /\ Satisfies(assignments, SubSeq(clauses, 1, satinput.nclauses))
     /\ \A k \in Lines : starts[k + 1] # ends[k + 1])
        => /\ \A k \in Lines : Follows(k, metro_paths[k + 1], 1, starts[k + 1], assignments)
           /\ var_counter = satinput.nvars
           /\ Cardinality(DOMAIN var_map) = satinput.nvars
           /\ Len(clauses) = satinput.nclauses

====
